---- MODULE Spec2Model ----
(***************************************************************************)
(* PrepClass Mentor (src/app.py): the credential store, the history store  *)
(* and the Streamlit session that drives them.                             *)
(*                                                                         *)
(* One action is one script run of the Streamlit app: the handler of the   *)
(* button that was pressed, with every st.rerun() it triggers (the         *)
(* session-state initialisation at the top of main_app included).          *)
(***************************************************************************)
EXTENDS Integers, Sequences, FiniteSets, TLC

VARIABLES
    cwd,            \* os.getcwd(), as its path components
    tables,         \* the database files in which init_db created the tables
    users,          \* table users of prepclass.db: username -> password_hash
    history,        \* table history of prepclass.db: row id -> row
    session_state,  \* st.session_state: a key is in DOMAIN iff it was ever set
    now,            \* the minute of the hour datetime.now() last returned
    calls,          \* the store and API calls of the last script run, in order
    generations,    \* Generate clicks that got their three documents
    pc,             \* concurrent writers: position in save_history_to_db
    args,           \* concurrent writers: the arguments of the call
    exists,         \* concurrent writers: the row id fetched by the SELECT
    wlock           \* concurrent writers: holder of the database write lock

vars == <<cwd, tables, users, history, session_state, now, calls,
          generations, pc, args, exists, wlock>>

dbVars == <<cwd, tables, users, history>>
writerVars == <<pc, args, exists, wlock>>

\* ----------------------------------------------------------------- bounds
\* Generate clicks that get their three documents in one behaviour.
MaxGenerations == 2

\* -------------------------------------------------------------- strings
None == "None"

\* The characters of the strings typed into the forms.
Chars(s) ==
    CASE s = ""          -> <<>>
      [] s = "ann"       -> <<"a", "n", "n">>
      [] s = "b_9"       -> <<"b", "_", "9">>
      [] s = "al"        -> <<"a", "l">>
      [] s = "a-b"       -> <<"a", "-", "b">>
      [] s = "x21"       -> [i \in 1..21 |-> "x"]
      [] s = "pass1234"  -> <<"p", "a", "s", "s", "1", "2", "3", "4">>
      [] s = "password9" -> <<"p", "a", "s", "s", "w", "o", "r", "d", "9">>
      [] s = "short77"   -> <<"s", "h", "o", "r", "t", "7", "7">>

len(s) == Len(Chars(s))

\* The character class [a-zA-Z0-9_].
WordChars ==
    {"a", "b", "c", "d", "e", "f", "g", "h", "i", "j", "k", "l", "m", "n", "o",
     "p", "q", "r", "s", "t", "u", "v", "w", "x", "y", "z",
     "A", "B", "C", "D", "E", "F", "G", "H", "I", "J", "K", "L", "M", "N", "O",
     "P", "Q", "R", "S", "T", "U", "V", "W", "X", "Y", "Z",
     "0", "1", "2", "3", "4", "5", "6", "7", "8", "9", "_"}

\* re.match("^[a-zA-Z0-9_]{3,20}$", s): 3 to 20 word characters; "$" also
\* matches before one trailing newline.
re_match_username(s) ==
    LET cs   == Chars(s)
        body == IF Len(cs) > 0 /\ cs[Len(cs)] = "\n"
                THEN SubSeq(cs, 1, Len(cs) - 1) ELSE cs
    IN  \/ /\ Len(cs) >= 3 /\ Len(cs) <= 20
           /\ \A i \in 1..Len(cs) : cs[i] \in WordChars
        \/ /\ Len(body) >= 3 /\ Len(body) <= 20
           /\ \A i \in 1..Len(body) : body[i] \in WordChars

\* ------------------------------------------------------------ environment
\* The working directories the path selection distinguishes.
Cwds == {<<"home", "mentor", "app">>, <<"mount", "streamlit", "app">>}

\* get_db_path(): 'streamlit' in os.getcwd()
get_db_path(dir) ==
    IF \E i \in 1..Len(dir) : dir[i] = "streamlit"
    THEN "/tmp/prepclass.db" ELSE "prepclass.db"

\* The file every store function connects to: sqlite3.connect('prepclass.db').
ConnectPath == "prepclass.db"

\* Whether the statements of a store function find their table.
HasTables == ConnectPath \in tables

\* ---------------------------------------------------------------- hashing
\* The salts pbkdf2_sha256.hash can draw: a random salt, which no stored
\* hash uses already.
Salts == {Cardinality(DOMAIN users) + 1}

\* PBKDF2-HMAC-SHA256 as an ideal hash: the digest determines its inputs.
Pbkdf2(password, salt) == <<password, salt>>

\* hash_password(password), for the salt drawn.
hash_password(password, salt) ==
    [salt |-> salt, checksum |-> Pbkdf2(password, salt)]

\* verify_password(password, hashed): recompute with the stored salt.
verify_password(password, hashed) ==
    Pbkdf2(password, hashed.salt) = hashed.checksum

\* -------------------------------------------------------- credential store
\* A users table without its PRIMARY KEY conflict: INSERT OR REPLACE.
InsertOrReplaceUser(tbl, username, hashed) ==
    [ok |-> TRUE,
     tbl |-> [u \in DOMAIN tbl \cup {username} |->
                 IF u = username THEN hashed ELSE tbl[u]]]

\* INSERT INTO users VALUES (?, ?) under the PRIMARY KEY on username:
\* ok = FALSE stands for sqlite3.IntegrityError.
InsertUser(tbl, username, hashed) ==
    IF username \in DOMAIN tbl
    THEN [ok |-> FALSE, tbl |-> tbl]
    ELSE [ok |-> TRUE,
          tbl |-> [u \in DOMAIN tbl \cup {username} |->
                      IF u = username THEN hashed ELSE tbl[u]]]

\* create_user(username, password): the value returned (or the exception
\* that escapes) and the users table afterwards.
create_user(username, password, salt) ==
    IF ~HasTables
    THEN [ret |-> "OperationalError", users |-> users]
    ELSE LET ins == InsertUser(users, username, hash_password(password, salt))
         IN  IF ins.ok THEN [ret |-> "True", users |-> ins.tbl]
                       ELSE [ret |-> "False", users |-> users]

\* A lookup that accepts any password of a stored username.
authenticate_known_user(username, password) ==
    IF ~HasTables THEN "OperationalError"
    ELSE IF username \in DOMAIN users THEN "True" ELSE "False"

\* authenticate_user(username, password)
authenticate_user(username, password) ==
    IF ~HasTables THEN "OperationalError"
    ELSE IF username \in DOMAIN users
            /\ verify_password(password, users[username])
         THEN "True" ELSE "False"

\* ------------------------------------------------------------ history store
Difficulties == <<"Beginner", "Intermediate", "Advanced">>

\* datetime.now().strftime("%Y-%m-%d %H:%M") within one hour: the minute
\* field, two zero-padded decimal digits (the other fields are constant).
strftime(minute) == <<minute \div 10, minute % 10>>

\* SQLite's comparison of two TEXT values: byte by byte, a proper prefix first.
TextLess(a, b) ==
    \E k \in 1..(Len(a) + 1) :
        /\ \A i \in 1..(k - 1) : i <= Len(b) /\ a[i] = b[i]
        /\ \/ k <= Len(a) /\ k <= Len(b) /\ a[k] < b[k]
           \/ k = Len(a) + 1 /\ k <= Len(b)

\* SELECT id FROM history WHERE username=? AND topic=?
SelectIds(tbl, username, topic) ==
    {i \in 1..Len(tbl) : tbl[i].username = username /\ tbl[i].topic = topic}

\* c.fetchone() on that SELECT, which states no order: any matching row,
\* or 0 for None.
FetchOne(ids) == IF ids = {} THEN {0} ELSE ids

\* save_history_to_db without its existence check: always the INSERT.
InsertHistory(tbl, fetched, username, topic, difficulty, timestamp, content) ==
    Append(tbl, [username |-> username, topic |-> topic,
                 difficulty |-> difficulty, timestamp |-> timestamp,
                 pre_class |-> content.pre_class,
                 in_class |-> content.in_class,
                 post_class |-> content.post_class])

\* The UPDATE (a row was fetched) or the INSERT (none was) of
\* save_history_to_db; AUTOINCREMENT gives a new row the next id.
WriteHistory(tbl, fetched, username, topic, difficulty, timestamp, content) ==
    IF fetched # 0
    THEN [tbl EXCEPT ![fetched] =
            [@ EXCEPT !.difficulty = difficulty, !.timestamp = timestamp,
                      !.pre_class = content.pre_class,
                      !.in_class = content.in_class,
                      !.post_class = content.post_class]]
    ELSE Append(tbl, [username |-> username, topic |-> topic,
                      difficulty |-> difficulty, timestamp |-> timestamp,
                      pre_class |-> content.pre_class,
                      in_class |-> content.in_class,
                      post_class |-> content.post_class])

\* The same query with ORDER BY timestamp ASC.
OrderByTimestampAsc(tbl, ids) ==
    {f \in [1..Cardinality(ids) -> ids] :
        /\ \A i, j \in DOMAIN f : i # j => f[i] # f[j]
        /\ \A i, j \in DOMAIN f :
              i < j => ~TextLess(tbl[f[j]].timestamp, tbl[f[i]].timestamp)}

\* The orders in which ORDER BY timestamp DESC can return the rows `ids`
\* (rows of equal timestamp come in an order SQL leaves open).
OrderByTimestampDesc(tbl, ids) ==
    {f \in [1..Cardinality(ids) -> ids] :
        /\ \A i, j \in DOMAIN f : i # j => f[i] # f[j]
        /\ \A i, j \in DOMAIN f :
              i < j => ~TextLess(tbl[f[i]].timestamp, tbl[f[j]].timestamp)}

\* history[topic] = {...} for one fetched row: a new key goes last, a key
\* already present keeps its place and takes the new value.
RECURSIVE DictOfRows(_, _, _)
DictOfRows(tbl, order, n) ==
    IF n = 0 THEN <<>>
    ELSE LET d     == DictOfRows(tbl, order, n - 1)
             row   == tbl[order[n]]
             entry == [topic |-> row.topic, difficulty |-> row.difficulty,
                       timestamp |-> row.timestamp, pre_class |-> row.pre_class,
                       in_class |-> row.in_class, post_class |-> row.post_class]
         IN  IF \E i \in 1..Len(d) : d[i].topic = row.topic
             THEN [i \in 1..Len(d) |->
                     IF d[i].topic = row.topic THEN entry ELSE d[i]]
             ELSE Append(d, entry)

\* load_history_from_db(username): the dicts it can return, each as the
\* sequence of its items in key order.
load_history_from_db(tbl, username) ==
    LET ids == {i \in 1..Len(tbl) : tbl[i].username = username}
    IN  {DictOfRows(tbl, order, Len(order)) :
            order \in OrderByTimestampDesc(tbl, ids)}

\* ------------------------------------------------------------------ inputs
\* What can be typed into the single-line text inputs of the forms.
Usernames == {"", "ann", "b_9", "al", "a-b", "x21"}
Passwords == {"", "pass1234", "short77"}
\* The same with a second password that passes the length check.
MorePasswords == Passwords \cup {"password9"}
Topics    == {"", "Recursion", "SQL Joins"}
ApiKeys   == {"", "sk-key"}

Kinds == <<"pre_class", "in_class", "post_class">>

\* response.choices[0].message.content.strip(): the text the API answers
\* with to the prompt of `kind` at the n-th successful click.
Document(kind, n) == <<kind, n>>
NoDocument == <<>>

\* ----------------------------------------------------------- session state
\* st.session_state.<key> = value
Set(ss, key, value) ==
    [k \in DOMAIN ss \cup {key} |-> IF k = key THEN value ELSE ss[k]]

NoContent ==
    [pre_class |-> NoDocument, in_class |-> NoDocument, post_class |-> NoDocument]

\* The top of main_app: each key is initialised only when it is not in
\* st.session_state; `loaded` is what load_history_from_db returns if called.
MainAppInit(ss, loaded) ==
    LET s1 == IF "history" \in DOMAIN ss THEN ss ELSE Set(ss, "history", loaded)
        s2 == IF "current_topic" \in DOMAIN s1 THEN s1
              ELSE Set(s1, "current_topic", None)
        s3 == IF "displayed_content" \in DOMAIN s2 THEN s2
              ELSE Set(s2, "displayed_content", NoContent)
    IN  IF "selected_difficulty" \in DOMAIN s3 THEN s3
        ELSE Set(s3, "selected_difficulty", "Beginner")

\* A new browser session: the app flow control sets authenticated only.
NewSessionState == [authenticated |-> FALSE]

Authenticated == session_state.authenticated

\* ------------------------------------------------------------------- Init
InitEnv ==
    /\ cwd \in Cwds
    /\ tables = {get_db_path(cwd)}     \* init_db()
    /\ users = <<>>
    /\ history = <<>>

InitWriters ==
    /\ pc = [w \in {} |-> "idle"]
    /\ args = [w \in {} |-> <<>>]
    /\ exists = [w \in {} |-> 0]
    /\ wlock = 0

Init ==
    /\ InitEnv
    /\ session_state = NewSessionState
    /\ now = 9
    /\ calls = <<>>
    /\ generations = 0
    /\ InitWriters

\* ---------------------------------------------------------------- actions
\* datetime.now() is read by save_history_to_db alone: the minutes that have
\* passed since it was last read. One minute is enough to order two saves.
Elapsed == {0, 1}

\* The user opens the app in a new browser session.
NewSession ==
    /\ session_state' = NewSessionState
    /\ calls' = <<>>
    /\ UNCHANGED <<dbVars, now, generations, writerVars>>

\* The checks of the Create Account button without the last one.
ValidateSignUpNoLength(new_user, new_pass, confirm_pass) ==
    IF new_user = "" \/ new_pass = "" THEN "Username and password required"
    ELSE IF new_pass # confirm_pass THEN "Passwords don't match"
    ELSE IF ~re_match_username(new_user)
         THEN "Username must be 3-20 chars (letters, numbers, _)"
    ELSE "ok"

\* The checks of the Create Account button, in order: the error shown, or
\* "ok" when create_user is reached.
ValidateSignUp(new_user, new_pass, confirm_pass) ==
    IF new_user = "" \/ new_pass = "" THEN "Username and password required"
    ELSE IF new_pass # confirm_pass THEN "Passwords don't match"
    ELSE IF ~re_match_username(new_user)
         THEN "Username must be 3-20 chars (letters, numbers, _)"
    ELSE IF len(new_pass) < 8 THEN "Password must be at least 8 characters"
    ELSE "ok"

\* auth_ui, the Create Account button.
SignUp(new_user, new_pass, confirm_pass) ==
    /\ ~Authenticated
    /\ IF ValidateSignUp(new_user, new_pass, confirm_pass) # "ok"
       THEN /\ calls' = <<>>          \* st.error of the failed check
            /\ users' = users
       ELSE \E salt \in Salts :
            LET r == create_user(new_user, new_pass, salt)
            IN  /\ users' = r.users
                /\ calls' = << <<"create_user", r.ret>> >>
    /\ UNCHANGED <<cwd, tables, history, session_state, now, generations, writerVars>>

\* auth_ui, the Login button, and the rerun it asks for (the top of main_app).
Login(username, password) ==
    /\ ~Authenticated
    /\ LET r == authenticate_user(username, password)
       IN  IF r = "True"
           THEN LET s1 == Set(Set(session_state, "authenticated", TRUE),
                              "username", username)
                IN  IF "history" \in DOMAIN s1
                    THEN /\ session_state' = MainAppInit(s1, <<>>)
                         /\ calls' = << <<"authenticate_user", r>> >>
                    ELSE \E loaded \in load_history_from_db(history, username) :
                         /\ session_state' = MainAppInit(s1, loaded)
                         /\ calls' = << <<"authenticate_user", r>>,
                                        <<"load_history_from_db", "ok">> >>
           ELSE /\ session_state' = session_state
                /\ calls' = << <<"authenticate_user", r>> >>
    /\ UNCHANGED <<dbVars, now, generations, writerVars>>

\* The completion calls one Generate click makes, given what the API would
\* answer to each prompt (0: the call raises): generate_pre_class,
\* generate_in_class, generate_post_class in this order, up to the first
\* exception, which leaves the try block.
ApiCalls(responses) ==
    LET failed == {i \in 1..3 : responses[i] = 0}
        last   == IF failed = {} THEN 3
                  ELSE CHOOSE i \in failed : \A j \in failed : i <= j
    IN  [i \in 1..last |-> <<Kinds[i], IF responses[i] = 0 THEN "raise" ELSE "ok">>]

\* A try block that goes on to store and save once the first call answered.
FirstGenerated(responses) == responses[1] # 0

\* Whether the try block got past the three calls, to the statements that
\* store and save their results.
AllGenerated(responses) == \A i \in 1..3 : responses[i] # 0

\* main_app, the Generate Learning Materials button. `difficulty` is the value
\* the difficulty selectbox returned in this run.
Generate(topic, api_key, difficulty, responses, elapsed) ==
    /\ Authenticated
    /\ AllGenerated(responses) => generations < MaxGenerations
    /\ IF topic = ""
       THEN /\ calls' = <<>>      \* "Please enter a topic first"; st.stop()
            /\ UNCHANGED <<history, session_state, generations, now>>
       ELSE IF api_key = ""
       THEN /\ calls' = <<>>      \* "Please enter your OpenAI API key"; st.stop()
            /\ UNCHANGED <<history, session_state, generations, now>>
       ELSE IF ~AllGenerated(responses)
       THEN /\ calls' = ApiCalls(responses)     \* except Exception: st.error
            /\ UNCHANGED <<history, session_state, generations, now>>
       ELSE LET content == [pre_class  |-> Document(Kinds[1], responses[1]),
                            in_class   |-> Document(Kinds[2], responses[2]),
                            post_class |-> Document(Kinds[3], responses[3])]
                s1 == Set(Set(session_state, "displayed_content", content),
                          "current_topic", topic)
                username == session_state.username
            IN  /\ generations' = generations + 1
                /\ IF ~HasTables
                   THEN /\ session_state' = s1
                        /\ history' = history
                        /\ now' = now
                        /\ calls' = ApiCalls(responses)
                                       \o << <<"save_history_to_db", "raise">> >>
                   ELSE \E fetched \in FetchOne(SelectIds(history, username, topic)) :
                        /\ now' = now + elapsed
                        /\ history' = WriteHistory(history, fetched, username, topic,
                                                   session_state.selected_difficulty,
                                                   strftime(now'), content)
                        /\ \E loaded \in load_history_from_db(history', username) :
                               session_state' = Set(s1, "history", loaded)
                        /\ calls' = ApiCalls(responses)
                                       \o << <<"save_history_to_db", "ok">>,
                                             <<"load_history_from_db", "ok">> >>
    /\ UNCHANGED <<cwd, tables, users, writerVars>>

\* main_app, the Load Selected Topic button; `i` is the place of the topic
\* selected among list(st.session_state.history.keys()).
LoadTopic(i) ==
    /\ Authenticated
    /\ i \in 1..Len(session_state.history)
    /\ LET entry == session_state.history[i]
           s1 == Set(session_state, "current_topic", entry.topic)
           s2 == Set(s1, "displayed_content",
                     [pre_class |-> entry.pre_class, in_class |-> entry.in_class,
                      post_class |-> entry.post_class])
       IN  session_state' = Set(s2, "selected_difficulty", entry.difficulty)
    /\ calls' = <<>>
    /\ UNCHANGED <<dbVars, now, generations, writerVars>>

\* main_app, the Clear History button.
ClearHistory ==
    /\ Authenticated
    /\ session_state' =
          Set(Set(Set(Set(session_state, "history", <<>>), "current_topic", None),
                  "displayed_content", NoContent), "selected_difficulty", "Beginner")
    /\ calls' = <<>>
    /\ UNCHANGED <<dbVars, now, generations, writerVars>>

\* main_app, the Logout button.
Logout ==
    /\ Authenticated
    /\ session_state' = Set(Set(session_state, "authenticated", FALSE),
                            "username", None)
    /\ calls' = <<>>
    /\ UNCHANGED <<dbVars, now, generations, writerVars>>

\* What the API answers to the three prompts of one click: each call answers
\* with a text no earlier click received, or the call at place `failing`
\* raises.
Responses ==
    {[i \in 1..3 |-> IF i = failing THEN 0 ELSE generations + 1] :
        failing \in 0..3}

Next ==
    \/ NewSession
    \/ \E u \in Usernames, p \in Passwords, c \in Passwords : SignUp(u, p, c)
    \/ \E u \in Usernames, p \in Passwords : Login(u, p)
    \/ \E t \in Topics, k \in ApiKeys, d \in 1..3, r \in Responses, e \in Elapsed :
          Generate(t, k, Difficulties[d], r, e)
    \/ \E i \in 1..4 : LoadTopic(i)
    \/ ClearHistory
    \/ Logout

Spec == Init /\ [][Next]_vars

\* ------------------------------------------------------- the login screen
\* auth_ui and the Logout button alone, with two acceptable passwords: no
\* other handler reads or writes the users table.
NextAuth ==
    \/ NewSession
    \/ \E u \in Usernames, p \in MorePasswords, c \in MorePasswords : SignUp(u, p, c)
    \/ \E u \in Usernames, p \in MorePasswords : Login(u, p)
    \/ Logout

SpecAuth == Init /\ [][NextAuth]_vars

\* ------------------------------------------------------ concurrent writers
\* Two sessions of the app (two browser tabs, two mentors) whose Generate
\* clicks have reached save_history_to_db at the same time. Each call has its
\* own connection; the statements of the two calls interleave.
Writers == {1, 2}

\* The accounts of the sessions, created by earlier sign-ups.
WriterUsers ==
    [u \in {"ann", "b_9"} |->
        hash_password("pass1234", IF u = "ann" THEN 1 ELSE 2)]

InitRace ==
    /\ cwd = <<"home", "mentor", "app">>
    /\ tables = {get_db_path(cwd)}
    /\ users = WriterUsers
    /\ history = <<>>
    /\ session_state = NewSessionState
    /\ now = 9
    /\ calls = <<>>
    /\ generations = 0
    /\ pc = [w \in Writers |-> "idle"]
    /\ args = [w \in Writers |-> <<>>]
    /\ exists = [w \in Writers |-> 0]
    /\ wlock = 0

\* save_history_to_db(username, topic, difficulty, content) is called:
\* sqlite3.connect, conn.cursor().
Call(w, username, topic, difficulty) ==
    /\ pc[w] \in {"idle", "done"}
    /\ generations < MaxGenerations
    /\ generations' = generations + 1
    /\ args' = [args EXCEPT ![w] =
                  [username |-> username, topic |-> topic, difficulty |-> difficulty,
                   content |-> [pre_class  |-> Document(Kinds[1], generations + 1),
                                in_class   |-> Document(Kinds[2], generations + 1),
                                post_class |-> Document(Kinds[3], generations + 1)]]]
    /\ pc' = [pc EXCEPT ![w] = "select"]
    /\ UNCHANGED <<dbVars, session_state, now, calls, exists, wlock>>

\* The SELECT and exists = c.fetchone(): it reads what is committed.
Select(w) ==
    /\ pc[w] = "select"
    /\ \E fetched \in FetchOne(SelectIds(history, args[w].username, args[w].topic)) :
          exists' = [exists EXCEPT ![w] = fetched]
    /\ pc' = [pc EXCEPT ![w] = "write"]
    /\ UNCHANGED <<dbVars, session_state, now, calls, generations, args, wlock>>

\* An existence check made again inside the write transaction.
RefetchedForWrite(w) ==
    LET ids == SelectIds(history, args[w].username, args[w].topic)
    IN  IF ids = {} THEN 0 ELSE CHOOSE i \in ids : \A j \in ids : i <= j

\* The row id the UPDATE is given, 0 for the INSERT branch: the value of
\* `exists` fetched before.
FetchedForWrite(w) == exists[w]

\* The UPDATE or the INSERT: it opens the connection's transaction, which
\* takes the write lock of the file (a second writer waits for it).
Write(w, elapsed) ==
    /\ pc[w] = "write"
    /\ wlock = 0
    /\ wlock' = w
    /\ now' = now + elapsed
    /\ args' = [args EXCEPT ![w] =
                  [k \in DOMAIN args[w] \cup {"txn"} |->
                     IF k = "txn"
                     THEN WriteHistory(history, FetchedForWrite(w), args[w].username,
                                       args[w].topic, args[w].difficulty,
                                       strftime(now'), args[w].content)
                     ELSE args[w][k]]]
    /\ pc' = [pc EXCEPT ![w] = "commit"]
    /\ UNCHANGED <<dbVars, session_state, calls, generations, exists>>

\* conn.commit(); conn.close()
Commit(w) ==
    /\ pc[w] = "commit"
    /\ wlock = w
    /\ history' = args[w].txn
    /\ wlock' = 0
    /\ pc' = [pc EXCEPT ![w] = "done"]
    /\ UNCHANGED <<cwd, tables, users, session_state, now, calls, generations,
                   args, exists>>

NextRace ==
    \/ \E w \in Writers, u \in {"ann", "b_9"}, t \in {"Recursion", "SQL Joins"},
          d \in {"Beginner", "Advanced"} : Call(w, u, t, d)
    \/ \E w \in Writers : Select(w)
    \/ \E w \in Writers, e \in Elapsed : Write(w, e)
    \/ \E w \in Writers : Commit(w)

SpecRace == InitRace /\ [][NextRace]_vars

\* ================================================================ claims
\* What the Create Account form promises of an accepted sign-up.
ValidUsername(u) ==
    /\ len(u) >= 3 /\ len(u) <= 20
    /\ \A i \in 1..len(u) : Chars(u)[i] \in WordChars

ChecksPass(u, p, c) ==
    /\ u # "" /\ p # "" /\ p = c
    /\ ValidUsername(u)
    /\ len(p) >= 8

\* The password a stored hash was derived from.
PasswordOf(hashed) == hashed.checksum[1]

\* C1: for every username u not in the users table and every password p,
\* create_user(u, p) returns True, and afterwards authenticate_user(u, p)
\* returns True while authenticate_user(u, q) returns False for every q # p.
C1_CreateThenAuthenticate ==
    [][\A u \in Usernames, p \in MorePasswords :
         (SignUp(u, p, p) /\ ChecksPass(u, p, p) /\ u \notin DOMAIN users)
         => /\ calls' = << <<"create_user", "True">> >>
            /\ (authenticate_user(u, p) = "True")'
            /\ \A q \in MorePasswords \ {p} : (authenticate_user(u, q) = "False")']_vars

\* C2: create_user with a username that is already stored returns False (no
\* storage error escapes) and leaves the users table as it was: the stored
\* hash is the first one, its password still authenticates and the password
\* of the second call, when it is another one, does not.
C2_DuplicateUsernameFails ==
    [][\A u \in Usernames, p \in MorePasswords :
         (SignUp(u, p, p) /\ ChecksPass(u, p, p) /\ u \in DOMAIN users)
         => /\ calls' = << <<"create_user", "False">> >>
            /\ users' = users
            /\ (authenticate_user(u, PasswordOf(users[u])) = "True")'
            /\ p # PasswordOf(users[u]) => (authenticate_user(u, p) = "False")']_vars

\* C2, its case: a second create_user for a stored username has returned.
C2_Witness ==
    /\ calls = << <<"create_user", "False">> >>
    /\ \E u \in DOMAIN users : PasswordOf(users[u]) = "pass1234"

\* The rows of the users table are those of accepted sign-ups.
C8_RowsValid ==
    \A u \in DOMAIN users : ValidUsername(u) /\ len(PasswordOf(users[u])) >= 8

\* C8: every row of the users table has a username of 3 to 20 letters, digits
\* and underscores and the hash of a password of at least 8 characters that
\* equalled its confirmation; a sign-up that fails a check (empty field,
\* mismatch, username format, short password) does not call create_user and
\* leaves the users table unchanged.
C8_SignUpValidated ==
    /\ C8_RowsValid
    /\ [][/\ C8_RowsValid'
          /\ \A u \in Usernames, p \in MorePasswords, c \in MorePasswords :
               SignUp(u, p, c)
               => /\ ~ChecksPass(u, p, c) => calls' = <<>> /\ users' = users
                  /\ users' # users
                       => /\ ChecksPass(u, p, c)
                          /\ DOMAIN users' = DOMAIN users \cup {u}
                          /\ PasswordOf(users'[u]) = p
                          /\ \A v \in DOMAIN users : users'[v] = users[v]]_vars

\* C8, its case: an accepted sign-up, with the second password that passes
\* the length check, has stored its row.
C8_Witness ==
    /\ calls = << <<"create_user", "True">> >>
    /\ \E u \in DOMAIN users : PasswordOf(users[u]) = "password9"

\* The inputs with which a Generate click reaches the completion API.
RealTopics == Topics \ {""}
RealKeys == ApiKeys \ {""}

\* The (username, topic) pairs with a record in a history table.
Pairs(tbl) == {<<tbl[i].username, tbl[i].topic>> : i \in 1..Len(tbl)}

\* A step in which save_history_to_db ran: the last script run called it.
Saved(log) == \E i \in 1..Len(log) : log[i][1] = "save_history_to_db"

NoDuplicatePair(tbl) ==
    \A i, j \in 1..Len(tbl) :
        (tbl[i].username = tbl[j].username /\ tbl[i].topic = tbl[j].topic) => i = j

\* C3: after any sequence of save_history_to_db calls that do not
\* interleave, the history table holds exactly one record for each
\* (username, topic) pair ever saved, with the difficulty, timestamp and
\* three documents of the latest save of that pair; a save leaves the
\* records of every other pair unchanged. (The handler passes the call the
\* session's username, the topic it stored as current_topic, the session's
\* selected_difficulty and the documents it stored as displayed_content.)
C3_OneRecordPerPair ==
    /\ NoDuplicatePair(history)
    /\ [][/\ NoDuplicatePair(history')
          /\ Pairs(history) \subseteq Pairs(history')
          /\ history' # history => Saved(calls')
          /\ Saved(calls') =>
               LET u   == session_state.username
                   t   == session_state'.current_topic
                   doc == session_state'.displayed_content
                   ids == SelectIds(history', u, t)
               IN  /\ Cardinality(ids) = 1
                   /\ \A i \in ids :
                        /\ history'[i].difficulty = session_state.selected_difficulty
                        /\ history'[i].timestamp = strftime(now')
                        /\ history'[i].pre_class = doc.pre_class
                        /\ history'[i].in_class = doc.in_class
                        /\ history'[i].post_class = doc.post_class
                        /\ doc.pre_class = Document("pre_class", generations')
                   /\ Pairs(history') = Pairs(history) \cup {<<u, t>>}
                   /\ Len(history') >= Len(history)
                   /\ \A i \in 1..Len(history) :
                        <<history[i].username, history[i].topic>> # <<u, t>>
                        => history'[i] = history[i]]_vars

\* C3, its case: a pair was saved twice, a minute apart, and its one record
\* carries the documents and the minute of the second save.
C3_Witness ==
    /\ Len(history) = 1
    /\ history[1].pre_class = Document("pre_class", 2)
    /\ history[1].timestamp = strftime(10)
    /\ Saved(calls)

\* C4: generating topic t at difficulty d1 and again at d2, the difficulties
\* chosen in the selectbox, leaves load_history_from_db with exactly one
\* entry for t, whose difficulty is d2: after each successful generation
\* the entry of t carries the difficulty chosen for it.
C4_ChosenDifficultyStored ==
    [][\A t \in RealTopics, k \in RealKeys, d \in 1..3, r \in Responses, e \in Elapsed :
         (Generate(t, k, Difficulties[d], r, e) /\ AllGenerated(r))
         => \A loaded \in load_history_from_db(history', session_state.username) :
              /\ Cardinality({i \in 1..Len(loaded) : loaded[i].topic = t}) = 1
              /\ \A i \in 1..Len(loaded) :
                    loaded[i].topic = t => loaded[i].difficulty = Difficulties[d]]_vars

\* C5: the three completion calls run in the order pre-class, in-class,
\* post-class; when one fails the later ones are not made,
\* save_history_to_db is not called and the history table is as before the
\* click; the table is written only after all three have succeeded.
C5_AllOrNothing ==
    [][LET api == {i \in 1..Len(calls') :
                      calls'[i][1] \in {Kinds[j] : j \in 1..3}}
       IN  /\ \A i \in api : i <= 3 /\ calls'[i][1] = Kinds[i]
                               /\ \A j \in 1..i : j \in api
           /\ \A i \in api :
                calls'[i][2] = "raise"
                => /\ Len(calls') = i
                   /\ ~Saved(calls')
                   /\ history' = history
           /\ (history' # history \/ Saved(calls'))
                => /\ Len(calls') > 3
                   /\ \A i \in 1..3 : calls'[i] = <<Kinds[i], "ok">>
                   /\ calls'[4][1] = "save_history_to_db"]_vars

\* C5, its case: the second call failed after the first had answered, and
\* the table holds a record of an earlier click.
C5_Witness ==
    /\ calls = << <<"pre_class", "ok">>, <<"in_class", "raise">> >>
    /\ Len(history) > 0

\* The records a history table holds for a user, as load_history_from_db
\* returns a record.
Stored(tbl, username) ==
    {[topic |-> tbl[i].topic, difficulty |-> tbl[i].difficulty,
      timestamp |-> tbl[i].timestamp, pre_class |-> tbl[i].pre_class,
      in_class |-> tbl[i].in_class, post_class |-> tbl[i].post_class] :
        i \in {j \in 1..Len(tbl) : tbl[j].username = username}}

Entries(dict) == {dict[i] : i \in 1..Len(dict)}

\* C6: Clear History deletes nothing from the history table, and the user's
\* stored records are in the session's history list after that user's next
\* login, a login that follows a logout in the same session included.
C6_ClearedHistoryReappears ==
    [][/\ ClearHistory => history' = history
       /\ \A u \in Usernames, p \in Passwords :
            (Login(u, p) /\ Authenticated')
            => Stored(history, u) \subseteq Entries(session_state'.history)]_vars

\* What load_history_from_db(username) is to return of a table.
Returned(dict, tbl, username) ==
    /\ Entries(dict) = Stored(tbl, username)
    /\ \A i, j \in 1..Len(dict) : dict[i].topic = dict[j].topic => i = j
    /\ Len(dict) = Cardinality({i \in 1..Len(tbl) : tbl[i].username = username})
    /\ \A i, j \in 1..Len(dict) :
          TextLess(dict[j].timestamp, dict[i].timestamp) => i < j

\* C7: load_history_from_db(u) returns exactly the records stored under u and
\* none of another user, one entry per topic, in non-increasing order of the
\* timestamp strings: of two entries, the one with the later timestamp comes
\* first.
C7_LoadReturnsOwnRecordsNewestFirst ==
    (\E i \in 1..Len(calls) : calls[i][1] = "load_history_from_db")
    => Returned(session_state.history, history, session_state.username)

\* C7, its case: a load returned two records of different minutes, in the
\* reverse of the order in which they were inserted.
C7_Witness ==
    /\ \E i \in 1..Len(calls) : calls[i][1] = "load_history_from_db"
    /\ Len(session_state.history) = 2
    /\ Len(history) = 2
    /\ TextLess(history[1].timestamp, history[2].timestamp)
    /\ session_state.history[1].topic = history[2].topic

\* C9: two save_history_to_db calls for the same (username, topic), neither
\* finding a record, whose existence checks both run before either INSERT is
\* committed, leave two records of that pair in the history table.
C9_RaceDuplicatesPair ==
    (/\ \A w \in Writers : pc[w] = "done" /\ exists[w] = 0
     /\ args[1].username = args[2].username
     /\ args[1].topic = args[2].topic)
    => Cardinality(SelectIds(history, args[1].username, args[1].topic)) = 2

\* C9, its case: both calls have returned after the interleaving.
C9_Witness ==
    /\ \A w \in Writers : pc[w] = "done" /\ exists[w] = 0
    /\ args[1].username = args[2].username
    /\ args[1].topic = args[2].topic
    /\ Len(history) = 2

\* C10: whenever the main app is shown, the session's history list, current
\* topic and displayed documents hold only what is stored under the
\* logged-in username; after A logs out and B logs in, B sees nothing of A.
C10_SessionShowsOwnRecordsOnly ==
    Authenticated
    => LET mine == Stored(history, session_state.username)
       IN  /\ Entries(session_state.history) \subseteq mine
           /\ session_state.current_topic # None
                => \E m \in mine : m.topic = session_state.current_topic
           /\ session_state.displayed_content # NoContent
                => \E m \in mine :
                      /\ m.pre_class = session_state.displayed_content.pre_class
                      /\ m.in_class = session_state.displayed_content.in_class
                      /\ m.post_class = session_state.displayed_content.post_class

\* The functions that open the database file.
StoreOperations ==
    {"create_user", "authenticate_user", "save_history_to_db",
     "load_history_from_db"}

\* C11: whenever a script run has called a store operation (create_user,
\* authenticate_user, save_history_to_db, load_history_from_db), the file it
\* connected to is the file get_db_path selects in this environment, and
\* init_db created the tables in it.
C11_StoreOpensInitDbFile ==
    (\E i \in 1..Len(calls) : calls[i][1] \in StoreOperations)
    => /\ ConnectPath = get_db_path(cwd)
       /\ ConnectPath \in tables

\* The session-state keys main_app keeps, and the calls it makes.
MainAppKeys ==
    {"history", "current_topic", "displayed_content", "selected_difficulty"}

MainAppCalls ==
    {Kinds[i] : i \in 1..3} \cup {"save_history_to_db", "load_history_from_db"}

\* A script run in which main_app ran: it made one of its calls, wrote the
\* history table or wrote one of its session-state keys.
MainAppRan ==
    \/ \E i \in 1..Len(calls') : calls'[i][1] \in MainAppCalls
    \/ history' # history
    \/ \E k \in MainAppKeys \cap DOMAIN session_state' :
          k \notin DOMAIN session_state \/ session_state'[k] # session_state[k]

\* A script run that pressed Login and got this answer of authenticate_user.
LoginAnswered(ret) ==
    Len(calls') >= 1 /\ calls'[1] = <<"authenticate_user", ret>>

\* C12: the session is authenticated only as a result of a login for which
\* authenticate_user returned True: an authenticated session's username is a
\* stored user, and the login (u, p) that authenticated it gave that user's
\* username and a password that verifies against the stored hash; a failed
\* login leaves the session unauthenticated and the session and the store
\* unchanged; the main app runs in an authenticated session only, also after
\* Logout.
C12_AuthenticatedOnlyByLogin ==
    [][/\ Authenticated' => (session_state.username \in DOMAIN users)'
       /\ (~Authenticated /\ Authenticated')
          => /\ LoginAnswered("True")
             /\ \A u \in Usernames, p \in Passwords :
                   Login(u, p) => /\ session_state'.username = u
                                  /\ u \in DOMAIN users
                                  /\ verify_password(p, users[u])
       /\ (\E ret \in {"False", "OperationalError"} : LoginAnswered(ret))
          => /\ ~Authenticated'
             /\ session_state' = session_state
             /\ users' = users /\ history' = history
       /\ ~Authenticated' => ~MainAppRan]_vars

\* C12, its case: with two users stored, one of them has logged in (the
\* other, or a wrong password, could have been typed) and main_app has run
\* for that user.
C12_Witness ==
    /\ Authenticated
    /\ Cardinality(DOMAIN users) = 2
    /\ session_state.username \in DOMAIN users
    /\ Len(calls) >= 1 /\ calls[1] = <<"authenticate_user", "True">>
    /\ "history" \in DOMAIN session_state
====
